---- MODULE Spec2Model ----
(***************************************************************************)
(* A model of lib/driver.ts of appium-uiautomator2-driver: the session     *)
(* lifecycle of AndroidUiautomator2Driver (createSession,                  *)
(* startUiAutomator2Session, deleteSession), the allocation and release of *)
(* the forwarded local ports, and the route tables.                        *)
(*                                                                         *)
(* Every driver instance (session) runs its own asynchronous call chain;   *)
(* one action of the model is one awaited step of that chain, so the steps *)
(* of different sessions interleave exactly at the awaits of the code.     *)
(* The sessions share the local TCP ports of the host and the lock file of *)
(* DEVICE_PORT_ALLOCATION_GUARD; each session drives its own device.       *)
(***************************************************************************)
EXTENDS Integers, Sequences, FiniteSets, TLC

(* ----------------------------- constants ------------------------------ *)

DEVICE_PORT_RANGE_START == 8200
DEVICE_PORT_RANGE_END == 8299
DEVICE_PORT == 6790
MJPEG_SERVER_DEVICE_PORT == 7810
MIN_API_LEVEL == 21
HIDDEN_API_LEVEL == 28
ANIMATION_API_LEVEL == 26
DEFAULT_WEBVIEW_TIMEOUT == 2000
RETRY_INTERVAL_MS == 500

(* ------------------------------- bounds ------------------------------- *)

\* calls of the device bridge or of the device server that the environment
\* makes throw in one behaviour
MaxFaults == 2
\* deleteSession calls a client makes on one driver instance
MaxDeletes == 1

Sessions == {"s1", "s2"}
NoSession == "nobody"

\* a caller-supplied port outside the scan range
OtherPort == 9000
\* a caller-supplied MJPEG port
MjpegPort == 9100

DEVICE_PORT_RANGE == DEVICE_PORT_RANGE_START..DEVICE_PORT_RANGE_END

(* ------------------------------- errors ------------------------------- *)

Err(kind, port) == [kind |-> kind, port |-> port]
NoErr == Err("none", 0)

(* ----------------------------- route tables --------------------------- *)

\* A request path is the sequence of the segments that follow
\* /session/<session id>; <<>> is /session/<session id> itself.
\* A RouteMatcher of the source is [method, RegExp]; every RegExp starts
\* with ^/session/[^/]+ and is kept here as the patterns of the segments
\* after it:
\*   L(x)     the text x                    Seg      [^/]+
\*   Pre(x)   x[^/]+                        Suf(x)   [^/]+x
\*   Not(x)   (?!x)[^/]+                    Has(x)   .*x
\* Open: the RegExp ends without $; Closed: it ends with $.
L(x) == [k |-> "lit", v |-> x]
Seg == [k |-> "any", v |-> ""]
Pre(x) == [k |-> "pre", v |-> x]
Suf(x) == [k |-> "suf", v |-> x]
Not(x) == [k |-> "not", v |-> x]
Has(x) == [k |-> "has", v |-> x]

Open(method, segs) == [method |-> method, segs |-> segs, anchored |-> FALSE]
Closed(method, segs) == [method |-> method, segs |-> segs, anchored |-> TRUE]

\* lines 68-134; ^/session/(?!.*/) of line 70 allows no segment after the
\* session id
NO_PROXY ==
  << Open("DELETE", <<L("actions")>>),
     Closed("GET", <<>>),
     Open("GET", <<Pre("alert_")>>),
     Open("GET", <<L("alert"), Seg>>),
     Open("GET", <<L("appium"), Seg, L("current_activity")>>),
     Open("GET", <<L("appium"), Seg, L("current_package")>>),
     Open("GET", <<L("appium"), L("app"), Seg>>),
     Open("GET", <<L("appium"), L("device"), Seg>>),
     Open("GET", <<L("appium"), L("settings")>>),
     Open("GET", <<L("context")>>),
     Open("GET", <<L("contexts")>>),
     Open("GET", <<L("element"), Seg, L("attribute")>>),
     Open("GET", <<L("element"), Seg, L("displayed")>>),
     Open("GET", <<L("element"), Seg, L("enabled")>>),
     Open("GET", <<L("element"), Seg, L("location_in_view")>>),
     Open("GET", <<L("element"), Seg, L("name")>>),
     Open("GET", <<L("element"), Seg, L("screenshot")>>),
     Open("GET", <<L("element"), Seg, L("selected")>>),
     Open("GET", <<L("ime"), Seg>>),
     Open("GET", <<L("location")>>),
     Open("GET", <<L("network_connection")>>),
     Open("GET", <<L("screenshot")>>),
     Open("GET", <<L("timeouts")>>),
     Open("GET", <<L("url")>>),
     Closed("POST", <<Suf("_alert")>>),
     Open("POST", <<L("actions")>>),
     Open("POST", <<L("alert"), Seg>>),
     Open("POST", <<L("app"), Seg>>),
     Open("POST", <<L("appium"), Seg, L("start_activity")>>),
     Open("POST", <<L("appium"), L("app"), Seg>>),
     Open("POST", <<L("appium"), L("compare_images")>>),
     Open("POST", <<L("appium"), L("device"), Not("set_clipboard")>>),
     Open("POST", <<L("appium"), L("element"), Seg, L("replace_value")>>),
     Open("POST", <<L("appium"), L("element"), Seg, L("value")>>),
     Open("POST", <<L("appium"), L("getPerformanceData")>>),
     Open("POST", <<L("appium"), L("performanceData"), L("types")>>),
     Open("POST", <<L("appium"), L("settings")>>),
     Open("POST", <<L("appium"), L("execute_driver")>>),
     Open("POST", <<L("appium"), L("start_recording_screen")>>),
     Open("POST", <<L("appium"), L("stop_recording_screen")>>),
     Open("POST", <<L("appium"), Has("event")>>),
     Open("POST", <<L("context")>>),
     Open("POST", <<L("element")>>),
     Open("POST", <<L("ime"), Seg>>),
     Open("POST", <<L("keys")>>),
     Open("POST", <<L("location")>>),
     Open("POST", <<L("network_connection")>>),
     Open("POST", <<L("timeouts")>>),
     Open("POST", <<L("touch"), L("multi"), L("perform")>>),
     Open("POST", <<L("touch"), L("perform")>>),
     Open("POST", <<L("url")>>),
     Open("GET", <<L("log"), L("types")>>),
     Open("POST", <<L("execute")>>),
     Open("POST", <<L("execute_async")>>),
     Open("POST", <<L("log")>>),
     Open("GET", <<L("se"), L("log"), L("types")>>),
     Open("GET", <<L("window"), L("rect")>>),
     Open("POST", <<L("execute"), L("async")>>),
     Open("POST", <<L("execute"), L("sync")>>),
     Open("POST", <<L("se"), L("log")>>) >>

\* lines 137-160
CHROME_NO_PROXY ==
  << Open("GET", <<L("appium")>>),
     Open("GET", <<L("context")>>),
     Open("GET", <<L("element"), Seg, L("rect")>>),
     Open("GET", <<L("orientation")>>),
     Open("POST", <<L("appium")>>),
     Open("POST", <<L("context")>>),
     Open("POST", <<L("orientation")>>),
     Open("POST", <<L("touch"), L("multi"), L("perform")>>),
     Open("POST", <<L("touch"), L("perform")>>),
     Closed("POST", <<L("execute")>>),
     Open("POST", <<L("execute"), L("sync")>>),
     Closed("GET", <<L("log"), L("types")>>),
     Closed("POST", <<L("log")>>),
     Closed("GET", <<L("se"), L("log"), L("types")>>),
     Closed("POST", <<L("se"), L("log")>>) >>

\* line 904: the rule appended for nativeWebScreenshot
TableNames ==
  {"NO_PROXY", "CHROME_NO_PROXY"}

SCREENSHOT_RULE == Open("GET", <<L("screenshot")>>)

\* the request paths of the model, as segments after /session/<session id>
Paths ==
  { <<>>, <<"screenshot">>, <<"source">>, <<"context">>, <<"contexts">>,
    <<"element", "e1", "rect">>, <<"execute">>, <<"execute_async">>,
    <<"appium", "device", "set_clipboard">>, <<"appium", "log_event">>,
    <<"accept_alert">>, <<"alert_text">>, <<"actions">> }

\* GET and POST of every path, and the DELETE of two of them
Requests ==
  [method : {"GET", "POST"}, path : Paths]
    \cup [method : {"DELETE"}, path : {<<"actions">>, <<"source">>}]

\* the text of the segments: the pairs <<x, q>> where the segment q of Paths
\* starts with, ends with or contains the text x of a pattern, and is longer
StartsLonger ==
  { <<"alert", "alert_text">>, <<"alert_", "alert_text">>, <<"app", "appium">>,
    <<"context", "contexts">>, <<"execute", "execute_async">>,
    <<"log", "log_event">>, <<"se", "set_clipboard">> }

EndsLonger ==
  { <<"_alert", "accept_alert">> }

Contains ==
  { <<"_alert", "accept_alert">>, <<"event", "log_event">> }

StartsWith(q, x) == q = x \/ <<x, q>> \in StartsLonger

\* the pattern p takes the whole segment q (a / or the $ follows p)
SegWhole(p, q) ==
  CASE p.k = "lit" -> q = p.v
    [] p.k = "any" -> TRUE
    [] p.k = "pre" -> <<p.v, q>> \in StartsLonger
    [] p.k = "suf" -> <<p.v, q>> \in EndsLonger
    [] p.k = "not" -> ~StartsWith(q, p.v)
    [] OTHER -> FALSE

\* the pattern p, the last of an open RegExp, matches a start of segment q
SegStart(p, q) ==
  CASE p.k = "lit" -> StartsWith(q, p.v)
    [] p.k = "any" -> TRUE
    [] p.k = "pre" -> <<p.v, q>> \in StartsLonger
    [] p.k = "not" -> ~StartsWith(q, p.v)
    [] OTHER -> FALSE

\* RegExp.test(path): the patterns but the last take whole segments; the
\* last takes the whole last segment of the path when the RegExp is closed,
\* a start of its segment when it is open; .*x finds x in any later segment
Matches(route, path) ==
  LET n == Len(route.segs)
      m == Len(path)
  IN  IF n = 0 THEN route.anchored => m = 0
      ELSE /\ m >= n
           /\ \A i \in 1..(n - 1) : SegWhole(route.segs[i], path[i])
           /\ IF route.segs[n].k = "has"
                THEN \E j \in n..m : <<route.segs[n].v, path[j]>> \in Contains
                ELSE IF route.anchored
                  THEN m = n /\ SegWhole(route.segs[n], path[n])
                  ELSE SegStart(route.segs[n], path[n])

(* ---------------------------- capabilities ---------------------------- *)

\* this.opts / this.caps after BaseDriver.createSession and _.defaults;
\* systemPort is the value of this.systemPort when createSession is called
\* (0: undefined, no port was supplied by the caller);
\* apiLevel, animationOn and webviewAt describe the attached device:
\* webviewAt is the setContext attempt at which the webview context exists
\* (0: it never does); recordingScreen and streamingScreen tell whether a
\* screen recording or a screen stream is running when the session ends;
\* inbound holds the requests the client of the session sends.
DefaultOpts ==
  [ systemPort |-> 0, mjpegServerPort |-> 0, app |-> FALSE, appPackage |-> TRUE,
    fullReset |-> FALSE, noReset |-> FALSE, dontStopAppOnReset |-> FALSE,
    shouldTerminateApp |-> FALSE, skipUninstall |-> FALSE,
    disableWindowAnimation |-> FALSE, androidCoverage |-> FALSE,
    androidCoverageEndIntent |-> FALSE, reboot |-> FALSE,
    skipServerInstallation |-> FALSE, skipUnlock |-> FALSE,
    isChromeSession |-> FALSE, autoLaunch |-> TRUE, orientation |-> FALSE,
    autoWebview |-> FALSE, autoWebviewTimeout |-> 0,
    nativeWebScreenshot |-> FALSE, mjpegScreenshotUrl |-> FALSE,
    recordingScreen |-> FALSE, streamingScreen |-> FALSE,
    apiLevel |-> 23, animationOn |-> TRUE, webviewAt |-> 0,
    inbound |-> {[method |-> "GET", path |-> <<"source">>]} ]

NoOpts == [DefaultOpts EXCEPT !.apiLevel = 0]

\* the default bundle for a client that sends no request
QuietOpts == [DefaultOpts EXCEPT !.inbound = {}]

\* capability bundles that differ in the port options only
PortOpts ==
  { DefaultOpts,
    [QuietOpts EXCEPT !.systemPort = DEVICE_PORT_RANGE_START],
    [QuietOpts EXCEPT !.systemPort = OtherPort] }

\* the capability bundles of the lifecycle specification
LifecycleOpts ==
  PortOpts \cup
  { [QuietOpts EXCEPT !.systemPort = OtherPort, !.apiLevel = 28,
       !.mjpegServerPort = MjpegPort, !.mjpegScreenshotUrl = TRUE],
    [QuietOpts EXCEPT !.systemPort = OtherPort, !.mjpegServerPort = OtherPort],
    [QuietOpts EXCEPT !.apiLevel = 19],
    [QuietOpts EXCEPT !.fullReset = TRUE, !.apiLevel = 28],
    [QuietOpts EXCEPT !.fullReset = TRUE, !.app = TRUE, !.appPackage = TRUE],
    [QuietOpts EXCEPT !.androidCoverage = TRUE, !.androidCoverageEndIntent = TRUE,
       !.noReset = TRUE, !.shouldTerminateApp = TRUE],
    [QuietOpts EXCEPT !.disableWindowAnimation = TRUE, !.app = TRUE,
       !.noReset = TRUE, !.skipUnlock = TRUE],
    [QuietOpts EXCEPT !.reboot = TRUE, !.skipServerInstallation = TRUE,
       !.appPackage = FALSE, !.apiLevel = 28],
    [QuietOpts EXCEPT !.isChromeSession = TRUE, !.orientation = TRUE,
       !.recordingScreen = TRUE],
    [QuietOpts EXCEPT !.autoWebview = TRUE, !.nativeWebScreenshot = TRUE],
    [QuietOpts EXCEPT !.autoWebview = TRUE, !.autoWebviewTimeout = 1000,
       !.webviewAt = 2],
    [QuietOpts EXCEPT !.autoWebview = TRUE, !.autoWebviewTimeout = DEFAULT_WEBVIEW_TIMEOUT],
    [QuietOpts EXCEPT !.autoWebview = TRUE, !.autoWebviewTimeout = 1250] }

\* the capability bundles of the routing specification: a native session, a
\* chrome session, a session that enters its webview, and a native session
\* with nativeWebScreenshot; their client sends any request
RouteOpts ==
  { [o EXCEPT !.inbound = Requests] :
      o \in { DefaultOpts,
               [DefaultOpts EXCEPT !.isChromeSession = TRUE],
               [DefaultOpts EXCEPT !.autoWebview = TRUE, !.webviewAt = 2],
               [DefaultOpts EXCEPT !.nativeWebScreenshot = TRUE] } }

\* what listens on the local ports before any session starts
ListenSets ==
  { {}, {DEVICE_PORT_RANGE_START}, {OtherPort}, DEVICE_PORT_RANGE }

(* ------------------------------- state -------------------------------- *)

VARIABLES
  opts,       \* opts[s]: the capability bundle of session s (NoOpts: none)
  drv,        \* drv[s]: the fields of the driver instance and its position
  dev,        \* dev[s]: the state of the device session s is attached to
  forwards,   \* the adb forwards of the host: <<local port, session, device port>>
  extListen,  \* local ports some other process listens on
  guard,      \* the holder of the port allocation lock file, or NoSession
  faults,     \* environment failures injected so far
  pushed      \* pushed[t]: the rules added in place to the static table t

vars == <<opts, drv, dev, forwards, extListen, guard, faults, pushed>>

\* the driver object after its constructor (lines 194-227), and the
\* observations the properties are stated over:
\*   prov     the provisioning side effects performed, in order
\*   calls    the device bridge and device server calls of the current deleteSession
\*   logged   the warnings the current deleteSession logged
\*   dsBegun, dsEnded   deleteSession invocations begun / returned normally
\*   result   the error createSession was rejected with
\*   raised   the error the current or last deleteSession was rejected with
\*   tornDown an earlier deleteSession ran to its end, no sub-step failing
\*   again    the current or last deleteSession began with tornDown set
\*   routed   the last request dispatched: the list getProxyAvoidList
\*            returned for it (its table, whether line 902 extended it, and
\*            the number of its rules),
\*            and the decision taken
NoRoute ==
  [ method |-> "none", path |-> <<>>, jwpProxyAvoid |-> "none", extended |-> FALSE,
    rules |-> 0, decision |-> "none" ]

InitDriver(o) ==
  [ pc |-> "idle", adb |-> FALSE, systemPort |-> o.systemPort, hasSystemPortInCaps |-> FALSE,
    uiautomator2 |-> FALSE, jwpProxyActive |-> FALSE,
    wasWindowAnimationDisabled |-> FALSE, chromedriver |-> FALSE,
    mjpegStream |-> FALSE, sessionId |-> FALSE,
    err |-> NoErr, gerr |-> NoErr, caller |-> "none", tries |-> 0,
    clientDeletes |-> 0, stopTasks |-> {},
    prov |-> <<>>, calls |-> {}, logged |-> {}, dsBegun |-> 0, dsEnded |-> 0,
    result |-> NoErr, raised |-> NoErr, tornDown |-> FALSE, again |-> FALSE,
    routed |-> NoRoute ]

InitDevice(o) ==
  [ apiLevel |-> o.apiLevel, hiddenApiRelaxed |-> FALSE,
    animationOn |-> o.animationOn, serverInstalled |-> FALSE,
    serverSession |-> FALSE, sessionsEnded |-> 0 ]

TypeOK ==
  /\ guard \in Sessions \cup {NoSession}
  /\ faults \in 0..MaxFaults
  /\ forwards \subseteq
       ((DEVICE_PORT_RANGE \cup {OtherPort, MjpegPort}) \X Sessions
          \X {DEVICE_PORT, MJPEG_SERVER_DEVICE_PORT})
  /\ \A s \in Sessions : drv[s].systemPort \in {0, OtherPort} \cup DEVICE_PORT_RANGE

(* ------------------------------ helpers ------------------------------- *)

\* a call of the environment that throws: the budget of injected failures
Fault ==
  /\ faults < MaxFaults
  /\ faults' = faults + 1

Set(s, r) ==
  drv' = [drv EXCEPT ![s] = r]

SetDev(s, r) ==
  dev' = [dev EXCEPT ![s] = r]

Did(r, what) ==
  [r EXCEPT !.prov = Append(@, what)]

Called(r, what) ==
  [r EXCEPT !.calls = @ \cup {what}]

\* checkPortStatus(port) === 'open': something accepts connections on the
\* local port, another process or the adb server for one of its forwards
Listening(p) ==
  \/ p \in extListen
  \/ \E f \in forwards : f[1] = p

\* the local ports session s has forwarded and nobody has removed since
Leases(s) ==
  {f[1] : f \in {g \in forwards : g[2] = s}}

Min(S) ==
  CHOOSE x \in S : \A y \in S : x <= y

\* lines 313-316: a rejected step of createSession lands in its catch block,
\* which calls deleteSession and keeps the error to throw it again
ThrowProv(r, e) ==
  [r EXCEPT !.pc = "deleteSession", !.err = e, !.caller = "createSession"]

(* ------------------------------ initial ------------------------------- *)

InitCommon ==
  /\ drv = [s \in Sessions |-> InitDriver(opts[s])]
  /\ dev = [s \in Sessions |-> InitDevice(opts[s])]
  /\ forwards = {}
  /\ guard = NoSession
  /\ pushed = [t \in TableNames |-> <<>>]

\* one session with any capability bundle; no request reaches the other driver
Init ==
  /\ \E o \in LifecycleOpts : opts = [s \in Sessions |-> IF s = "s1" THEN o ELSE NoOpts]
  /\ extListen \in ListenSets
  /\ faults = 0
  /\ InitCommon

\* one session without failures of the environment, any request
InitRoutes ==
  /\ \E o \in RouteOpts : opts = [s \in Sessions |-> IF s = "s1" THEN o ELSE NoOpts]
  /\ extListen = {}
  /\ faults = MaxFaults
  /\ InitCommon

\* two sessions that both scan for their system port
InitGuard ==
  /\ opts = [s \in Sessions |->
               IF s = "s1" THEN DefaultOpts ELSE QuietOpts]
  /\ extListen = {}
  /\ faults = MaxFaults
  /\ InitCommon

\* two sessions started on the same host
InitPorts ==
  /\ \E f \in [Sessions -> PortOpts] :
       opts = [s \in Sessions |-> IF s = "s1" THEN f[s] ELSE [f[s] EXCEPT !.inbound = {}]]
  /\ extListen \in {{}, {DEVICE_PORT_RANGE_START}}
  /\ faults = MaxFaults
  /\ InitCommon

(* --------------------------- createSession ---------------------------- *)

\* lines 242-284: BaseDriver.createSession validates the capabilities and
\* assigns the session id; the defaults are merged into this.opts
createSession(s) ==
  /\ drv[s].pc = "idle"
  /\ opts[s] # NoOpts
  /\ \/ /\ Set(s, [drv[s] EXCEPT !.pc = "configureApp", !.sessionId = TRUE])
        /\ faults' = faults
     \/ /\ Fault
        /\ Set(s, ThrowProv(drv[s], Err("BaseDriver.createSession", 0)))
  /\ UNCHANGED <<pushed, opts, dev, forwards, extListen, guard>>

\* lines 286-303: the app is located (configureApp, checkAppPresent) when one is given
configureApp(s) ==
  /\ drv[s].pc = "configureApp"
  /\ \/ /\ Set(s, [drv[s] EXCEPT !.pc = "createADB"])
        /\ faults' = faults
     \/ /\ opts[s].app
        /\ Fault
        /\ Set(s, ThrowProv(drv[s], Err("configureApp", 0)))
  /\ UNCHANGED <<pushed, opts, dev, forwards, extListen, guard>>

(* ----------------------- startUiAutomator2Session --------------------- *)

\* lines 433-440: the device is resolved and this.adb is created
createADB(s) ==
  /\ drv[s].pc = "createADB"
  /\ \/ /\ Set(s, Did([drv[s] EXCEPT !.pc = "getApiLevel", !.adb = TRUE], "createADB"))
        /\ faults' = faults
     \/ /\ Fault
        /\ Set(s, ThrowProv(drv[s], Err("createADB", 0)))
  /\ UNCHANGED <<pushed, opts, dev, forwards, extListen, guard>>

\* the check of line 444 against a lower level
apiLevelSupported_Lower(level) ==
  ~(level < MIN_API_LEVEL - 2)

\* line 444: the minimum supported API level
apiLevelSupported(level) ==
  ~(level < MIN_API_LEVEL)

\* lines 442-449
getApiLevel(s) ==
  /\ drv[s].pc = "getApiLevel"
  /\ \/ /\ faults' = faults
        /\ IF apiLevelSupported(dev[s].apiLevel)
             THEN Set(s, Did([drv[s] EXCEPT !.pc = "setHiddenApiPolicy"], "getApiLevel"))
             ELSE Set(s, ThrowProv(Did(drv[s], "getApiLevel"), Err("UnsupportedDevice", 0)))
     \/ /\ Fault
        /\ Set(s, ThrowProv(drv[s], Err("getApiLevel", 0)))
  /\ UNCHANGED <<pushed, opts, dev, forwards, extListen, guard>>

\* lines 451-455
setHiddenApiPolicy(s) ==
  /\ drv[s].pc = "setHiddenApiPolicy"
  /\ \/ /\ faults' = faults
        /\ IF dev[s].apiLevel >= HIDDEN_API_LEVEL
             THEN /\ Set(s, Did([drv[s] EXCEPT !.pc = "initDevice"], "setHiddenApiPolicy"))
                  /\ SetDev(s, [dev[s] EXCEPT !.hiddenApiRelaxed = TRUE])
             ELSE /\ Set(s, [drv[s] EXCEPT !.pc = "initDevice"])
                  /\ dev' = dev
     \/ /\ dev[s].apiLevel >= HIDDEN_API_LEVEL
        /\ Fault
        /\ Set(s, ThrowProv(drv[s], Err("setHiddenApiPolicy", 0)))
        /\ dev' = dev
  /\ UNCHANGED <<pushed, opts, forwards, extListen, guard>>

\* the device primed and the server set up next, no port forwarded
initDevice_ThenServer(s) ==
  /\ drv[s].pc = "initDevice"
  /\ \/ /\ Set(s, Did([drv[s] EXCEPT !.pc = "initUiAutomator2Server"], "initDevice"))
        /\ faults' = faults
     \/ /\ Fault
        /\ Set(s, ThrowProv(drv[s], Err("initDevice", 0)))
  /\ UNCHANGED <<pushed, opts, dev, forwards, extListen, guard>>

\* lines 457-487: gps toggle, getLaunchInfo and helpers.initDevice prime the device
initDevice(s) ==
  /\ drv[s].pc = "initDevice"
  /\ \/ /\ Set(s, Did([drv[s] EXCEPT !.pc = "allocateSystemPort"], "initDevice"))
        /\ faults' = faults
     \/ /\ Fault
        /\ Set(s, ThrowProv(drv[s], Err("initDevice", 0)))
  /\ UNCHANGED <<pushed, opts, dev, forwards, extListen, guard>>

(* ------------------------- the allocation guard ----------------------- *)

\* lines 47-52: util.getLockFileGuard(lock file, {timeout: 25, tryRecovery: true}).
\* The holder of the lock file excludes every other caller; a caller that
\* waits longer than the timeout fails; a lock file left by a killed holder
\* is reclaimed by the recovery.
guardHeldByLive(s) ==
  /\ guard # NoSession
  /\ guard # s
  /\ drv[guard].pc # "crashed"

\* the guard without its recovery
guardAbandoned_NoRecovery ==
  FALSE

guardAbandoned ==
  /\ guard # NoSession
  /\ drv[guard].pc = "crashed"

\* where a guarded behaviour starts, by the call that asks for the guard
guardedEntry(pc) ==
  IF pc = "allocGuard" THEN "findAPortNotInUse" ELSE "removeGuarded"

\* lines 382 and 407: the guard is asked for, by allocateSystemPort or by
\* releaseSystemPort
acquireGuard(s) ==
  /\ drv[s].pc \in {"allocGuard", "releaseGuard"}
  /\ \/ /\ guard = NoSession \/ guardAbandoned
        /\ guard' = s
        /\ faults' = faults
        /\ Set(s, [drv[s] EXCEPT !.pc = guardedEntry(drv[s].pc)])
     \/ /\ guardHeldByLive(s)
        /\ faults' = faults
        /\ guard' = guard
        /\ IF drv[s].pc = "allocGuard"
             THEN Set(s, ThrowProv(drv[s], Err("GuardTimeout", 0)))
             ELSE Set(s, [drv[s] EXCEPT !.pc = "releaseMjpegServerPort",
                            !.logged = @ \cup {"releaseSystemPort"}])
  /\ UNCHANGED <<pushed, opts, dev, forwards, extListen>>

\* the guard's finally: the lock file is removed and the behaviour's result
\* or error is handed to the caller (line 396 or line 409)
releaseGuard(s) ==
  /\ drv[s].pc \in {"allocUnguard", "releaseUnguard"}
  /\ guard' = IF guard = s THEN NoSession ELSE guard
  /\ IF drv[s].pc = "allocUnguard"
       THEN IF drv[s].gerr = NoErr
              THEN Set(s, [drv[s] EXCEPT !.pc = "allocateMjpegServerPort"])
              ELSE Set(s, ThrowProv([drv[s] EXCEPT !.gerr = NoErr], drv[s].gerr))
       ELSE Set(s, [drv[s] EXCEPT !.pc = "releaseMjpegServerPort", !.gerr = NoErr,
                      !.logged = IF drv[s].gerr = NoErr
                                   THEN @ ELSE @ \cup {"releaseSystemPort"}])
  /\ UNCHANGED <<pushed, opts, dev, forwards, extListen, faults>>

\* the process of the session is killed while it holds the lock file
crash(s) ==
  /\ guard = s
  /\ drv[s].pc # "crashed"
  /\ Set(s, [drv[s] EXCEPT !.pc = "crashed"])
  /\ UNCHANGED <<pushed, opts, dev, forwards, extListen, guard, faults>>

(* --------------------------- port allocation -------------------------- *)

\* allocateSystemPort with the scan started outside the guard
allocateSystemPort_Unguarded(s) ==
  /\ drv[s].pc = "allocateSystemPort"
  /\ IF drv[s].systemPort # 0
       THEN Set(s, [drv[s] EXCEPT !.pc = "checkPortStatus", !.hasSystemPortInCaps = TRUE])
       ELSE Set(s, [drv[s] EXCEPT !.pc = "findAPortNotInUse"])
  /\ UNCHANGED <<pushed, opts, dev, forwards, extListen, guard, faults>>

\* lines 361, 377-382: a caller-supplied port is forwarded directly, any
\* other is scanned for under the guard
allocateSystemPort(s) ==
  /\ drv[s].pc = "allocateSystemPort"
  /\ IF drv[s].systemPort # 0
       THEN Set(s, [drv[s] EXCEPT !.pc = "checkPortStatus", !.hasSystemPortInCaps = TRUE])
       ELSE Set(s, [drv[s] EXCEPT !.pc = "allocGuard"])
  /\ UNCHANGED <<pushed, opts, dev, forwards, extListen, guard, faults>>

\* the start of the range taken without a scan
firstFreePort_Unscanned ==
  DEVICE_PORT_RANGE_START

\* portscanner's findAPortNotInUse(startPort, endPort): the first port of
\* the range nothing listens on; 0 when there is none (it rejects)
firstFreePort ==
  LET free == {p \in DEVICE_PORT_RANGE : ~Listening(p)}
  IN  IF free = {} THEN 0 ELSE Min(free)

\* lines 383-394
findAPortNotInUse(s) ==
  /\ drv[s].pc = "findAPortNotInUse"
  /\ IF firstFreePort = 0
       THEN Set(s, [drv[s] EXCEPT !.pc = "allocUnguard",
                      !.gerr = Err("PortRangeExhausted", 0)])
       ELSE Set(s, [drv[s] EXCEPT !.pc = "checkPortStatus", !.systemPort = firstFreePort])
  /\ UNCHANGED <<pushed, opts, dev, forwards, extListen, guard, faults>>

\* how an error of forwardPort leaves allocateSystemPort: through the
\* guard's finally when the port was scanned for, directly otherwise
forwardPortThrows(r, e) ==
  IF r.hasSystemPortInCaps
    THEN ThrowProv(r, e)
    ELSE [r EXCEPT !.pc = "allocUnguard", !.gerr = e]

\* the check of line 366 left out
portBusy_Unchecked(p) ==
  FALSE

\* line 366: the port is busy when checkPortStatus finds it open
portBusy(p) ==
  Listening(p)

\* lines 362-373: forwardPort, up to its check of the local port
checkPortStatus(s) ==
  /\ drv[s].pc = "checkPortStatus"
  /\ IF portBusy(drv[s].systemPort)
       THEN Set(s, forwardPortThrows(drv[s], Err("PortBusy", drv[s].systemPort)))
       ELSE Set(s, [drv[s] EXCEPT !.pc = "forwardPort"])
  /\ UNCHANGED <<pushed, opts, dev, forwards, extListen, guard, faults>>

\* adb forward tcp:<local> tcp:<remote>: the adb server binds the local
\* port, which fails when another process listens on it; a port the adb
\* server forwards already is bound again to the new target
adbCanBind(local) ==
  local \notin extListen

adbForwardPort(s, local, remote) ==
  forwards' = forwards \cup {<<local, s, remote>>}

\* line 374
forwardPort(s) ==
  /\ drv[s].pc = "forwardPort"
  /\ \/ /\ adbCanBind(drv[s].systemPort)
        /\ adbForwardPort(s, drv[s].systemPort, DEVICE_PORT)
        /\ faults' = faults
        /\ Set(s, Did([drv[s] EXCEPT !.pc = IF drv[s].hasSystemPortInCaps
                                               THEN "allocateMjpegServerPort"
                                               ELSE "allocUnguard"],
                      "forwardSystemPort"))
     \/ /\ IF adbCanBind(drv[s].systemPort) THEN Fault ELSE faults' = faults
        /\ forwards' = forwards
        /\ Set(s, forwardPortThrows(drv[s], Err("forwardPort", drv[s].systemPort)))
  /\ UNCHANGED <<pushed, opts, dev, extListen, guard>>

\* lines 413-421
allocateMjpegServerPort(s) ==
  /\ drv[s].pc = "allocateMjpegServerPort"
  /\ \/ /\ faults' = faults
        /\ opts[s].mjpegServerPort # 0 => adbCanBind(opts[s].mjpegServerPort)
        /\ IF opts[s].mjpegServerPort # 0
             THEN /\ adbForwardPort(s, opts[s].mjpegServerPort, MJPEG_SERVER_DEVICE_PORT)
                  /\ Set(s, Did([drv[s] EXCEPT !.pc = "initUiAutomator2Server"],
                                "forwardMjpegPort"))
             ELSE /\ forwards' = forwards
                  /\ Set(s, [drv[s] EXCEPT !.pc = "initUiAutomator2Server"])
     \/ /\ opts[s].mjpegServerPort # 0
        /\ IF adbCanBind(opts[s].mjpegServerPort) THEN Fault ELSE faults' = faults
        /\ forwards' = forwards
        /\ Set(s, ThrowProv(drv[s], Err("forwardMjpegPort", opts[s].mjpegServerPort)))
  /\ UNCHANGED <<pushed, opts, dev, extListen, guard>>

(* ------------------ startUiAutomator2Session, continued ---------------- *)

\* lines 582-626: the handle is assigned before the server apk is installed
initUiAutomator2Server(s) ==
  /\ drv[s].pc = "initUiAutomator2Server"
  /\ \/ /\ faults' = faults
        /\ IF opts[s].skipServerInstallation
             THEN /\ Set(s, [drv[s] EXCEPT !.pc = "disableAnimation", !.uiautomator2 = TRUE])
                  /\ dev' = dev
             ELSE /\ Set(s, Did([drv[s] EXCEPT !.pc = "disableAnimation",
                                   !.uiautomator2 = TRUE], "installServerApk"))
                  /\ SetDev(s, [dev[s] EXCEPT !.serverInstalled = TRUE])
     \/ /\ ~opts[s].skipServerInstallation
        /\ Fault
        /\ Set(s, ThrowProv([drv[s] EXCEPT !.uiautomator2 = TRUE], Err("installServerApk", 0)))
        /\ dev' = dev
  /\ UNCHANGED <<pushed, opts, forwards, extListen, guard>>

\* lines 500-513
disableAnimation(s) ==
  /\ drv[s].pc = "disableAnimation"
  /\ LET applies == opts[s].disableWindowAnimation /\ dev[s].apiLevel < ANIMATION_API_LEVEL
     IN  \/ /\ faults' = faults
            /\ IF applies /\ dev[s].animationOn
                 THEN /\ Set(s, Did([drv[s] EXCEPT !.pc = "initAUT",
                                       !.wasWindowAnimationDisabled = TRUE],
                                    "setAnimationState"))
                      /\ SetDev(s, [dev[s] EXCEPT !.animationOn = FALSE])
                 ELSE /\ Set(s, [drv[s] EXCEPT !.pc = "initAUT"])
                      /\ dev' = dev
         \/ /\ applies
            /\ Fault
            /\ Set(s, ThrowProv(drv[s], Err("setAnimationState", 0)))
            /\ dev' = dev
  /\ UNCHANGED <<pushed, opts, forwards, extListen, guard>>

\* the check of line 676 left out
fullResetWithoutApp_Unchecked(o) ==
  FALSE

\* lines 675-680: a full reset needs an app
fullResetWithoutApp(o) ==
  ~o.app /\ o.fullReset

\* lines 682-684: without an app, a fast reset (neither full reset nor
\* noReset) resets the package on the device
fastResetsApp(o) ==
  ~o.app /\ ~o.fullReset /\ ~o.noReset /\ o.appPackage

\* lines 628-686: the app under test is installed, or reset, on the device
initAUT(s) ==
  /\ drv[s].pc = "initAUT"
  /\ \/ /\ faults' = faults
        /\ IF fullResetWithoutApp(opts[s])
             THEN Set(s, ThrowProv(drv[s], Err("FullResetNeedsApp", 0)))
             ELSE Set(s, Did([drv[s] EXCEPT !.pc = "startSession"], "initAUT"))
     \/ /\ opts[s].app \/ fastResetsApp(opts[s])
        /\ Fault
        /\ Set(s, ThrowProv(drv[s], Err("initAUT", 0)))
  /\ UNCHANGED <<pushed, opts, dev, forwards, extListen, guard>>

\* lines 524-525: uiautomator2.startSession over the forwarded system port
startSession(s) ==
  /\ drv[s].pc = "startSession"
  /\ \/ /\ faults' = faults
        /\ Set(s, Did([drv[s] EXCEPT !.pc = "getDeviceInfoFromUia2"], "startSession"))
        /\ SetDev(s, [dev[s] EXCEPT !.serverSession = TRUE])
     \/ /\ Fault
        /\ Set(s, ThrowProv(drv[s], Err("startSession", 0)))
        /\ dev' = dev
  /\ UNCHANGED <<pushed, opts, forwards, extListen, guard>>

\* lines 527-530, 569-580
getDeviceInfoFromUia2(s) ==
  /\ drv[s].pc = "getDeviceInfoFromUia2"
  /\ \/ /\ faults' = faults
        /\ Set(s, Did([drv[s] EXCEPT !.pc = "unlock"], "getDeviceInfoFromUia2"))
     \/ /\ Fault
        /\ Set(s, ThrowProv(drv[s], Err("getDeviceInfoFromUia2", 0)))
  /\ UNCHANGED <<pushed, opts, dev, forwards, extListen, guard>>

\* lines 532-538
unlock(s) ==
  /\ drv[s].pc = "unlock"
  /\ \/ /\ faults' = faults
        /\ IF opts[s].skipUnlock
             THEN Set(s, [drv[s] EXCEPT !.pc = "startApp"])
             ELSE Set(s, Did([drv[s] EXCEPT !.pc = "startApp"], "unlock"))
     \/ /\ ~opts[s].skipUnlock
        /\ Fault
        /\ Set(s, ThrowProv(drv[s], Err("unlock", 0)))
  /\ UNCHANGED <<pushed, opts, dev, forwards, extListen, guard>>

\* lines 540-545: startChromeSession (which sets this.chromedriver) or ensureAppStarts
startApp(s) ==
  /\ drv[s].pc = "startApp"
  /\ LET chrome == opts[s].isChromeSession
         launch == ~chrome /\ opts[s].autoLaunch /\ opts[s].appPackage
     IN  \/ /\ faults' = faults
            /\ IF chrome
                 THEN Set(s, Did([drv[s] EXCEPT !.pc = "setOrientation",
                                    !.chromedriver = TRUE], "startChromeSession"))
                 ELSE IF launch
                   THEN Set(s, Did([drv[s] EXCEPT !.pc = "setOrientation"], "ensureAppStarts"))
                   ELSE Set(s, [drv[s] EXCEPT !.pc = "setOrientation"])
         \/ /\ chrome \/ launch
            /\ Fault
            /\ Set(s, ThrowProv(drv[s], Err("startApp", 0)))
  /\ UNCHANGED <<pushed, opts, dev, forwards, extListen, guard>>

\* lines 547-551
setOrientation(s) ==
  /\ drv[s].pc = "setOrientation"
  /\ \/ /\ faults' = faults
        /\ IF opts[s].orientation
             THEN Set(s, Did([drv[s] EXCEPT !.pc = "autoWebview"], "setOrientation"))
             ELSE Set(s, [drv[s] EXCEPT !.pc = "autoWebview"])
     \/ /\ opts[s].orientation
        /\ Fault
        /\ Set(s, ThrowProv(drv[s], Err("setOrientation", 0)))
  /\ UNCHANGED <<pushed, opts, dev, forwards, extListen, guard>>

\* the timeout of line 557
webviewTimeout(o) ==
  IF o.autoWebviewTimeout # 0 THEN o.autoWebviewTimeout ELSE DEFAULT_WEBVIEW_TIMEOUT

\* the attempts counted with both ends of the timeout
webviewAttempts_Inclusive(o) ==
  webviewTimeout(o) \div RETRY_INTERVAL_MS + 1

\* line 559: asyncbox retryInterval(times, 500, ...) with times = timeout / 500
\* calls setContext while the count of its calls is below times, and
\* rejects with the error of the last call
webviewAttempts(o) ==
  (webviewTimeout(o) + RETRY_INTERVAL_MS - 1) \div RETRY_INTERVAL_MS

\* lines 553-560: one attempt of setContext per step
autoWebview(s) ==
  /\ drv[s].pc = "autoWebview"
  /\ IF ~opts[s].autoWebview
       THEN Set(s, [drv[s] EXCEPT !.pc = "activateProxy"])
       ELSE LET n == drv[s].tries + 1
            IN  IF opts[s].webviewAt # 0 /\ n >= opts[s].webviewAt
                  THEN Set(s, Did([drv[s] EXCEPT !.pc = "activateProxy", !.tries = n,
                                     !.chromedriver = TRUE], "setContext"))
                  ELSE IF n >= webviewAttempts(opts[s])
                    THEN Set(s, ThrowProv([drv[s] EXCEPT !.tries = n], Err("setContext", 0)))
                    ELSE Set(s, [drv[s] EXCEPT !.tries = n])
  /\ UNCHANGED <<pushed, opts, dev, forwards, extListen, guard, faults>>

\* lines 562-564
activateProxy(s) ==
  /\ drv[s].pc = "activateProxy"
  /\ Set(s, Did([drv[s] EXCEPT !.pc = "getDeviceDetails", !.jwpProxyActive = TRUE],
                "jwpProxyActive"))
  /\ UNCHANGED <<pushed, opts, dev, forwards, extListen, guard, faults>>

\* lines 566, 319-326
getDeviceDetails(s) ==
  /\ drv[s].pc = "getDeviceDetails"
  /\ \/ /\ faults' = faults
        /\ Set(s, [drv[s] EXCEPT !.pc = "startMjpegStream"])
     \/ /\ Fault
        /\ Set(s, ThrowProv(drv[s], Err("getDeviceDetails", 0)))
  /\ UNCHANGED <<pushed, opts, dev, forwards, extListen, guard>>

\* lines 307-312: the stream object is assigned before it is started
startMjpegStream(s) ==
  /\ drv[s].pc = "startMjpegStream"
  /\ \/ /\ faults' = faults
        /\ Set(s, [drv[s] EXCEPT !.pc = "running",
                     !.mjpegStream = opts[s].mjpegScreenshotUrl])
     \/ /\ opts[s].mjpegScreenshotUrl
        /\ Fault
        /\ Set(s, ThrowProv([drv[s] EXCEPT !.mjpegStream = TRUE], Err("mjpegStream.start", 0)))
  /\ UNCHANGED <<pushed, opts, dev, forwards, extListen, guard>>

(* ---------------------------- deleteSession --------------------------- *)

\* deleteSession rejects with e: createSession's catch block is left with
\* that error (line 314), a client's call fails with it
Raise(r, e) ==
  IF r.caller = "createSession"
    THEN [r EXCEPT !.pc = "createFailed", !.result = e, !.raised = e, !.caller = "none"]
    ELSE [r EXCEPT !.pc = "deleteFailed", !.raised = e, !.caller = "none"]

\* deleteSession returns: createSession's catch block throws the error it
\* caught (line 315), a client's call succeeds
Return(r) ==
  IF r.caller = "createSession"
    THEN [r EXCEPT !.pc = "createFailed", !.result = r.err, !.caller = "none",
                   !.dsEnded = @ + 1, !.tornDown = @ \/ r.logged = {}]
    ELSE [r EXCEPT !.pc = "deleted", !.caller = "none",
                   !.dsEnded = @ + 1, !.tornDown = @ \/ r.logged = {}]

\* a try/catch of deleteSession that logs the failure of one sub-step
Logged(r, what) ==
  [r EXCEPT !.logged = @ \cup {what}]

AtRest(s) ==
  drv[s].pc \in {"running", "createFailed", "deleted", "deleteFailed"}

\* lines 733-754: deleteSession is entered, from the catch block of
\* createSession or by a call of the client
deleteSession(s) ==
  /\ \/ /\ drv[s].pc = "deleteSession"
        /\ Set(s, [drv[s] EXCEPT !.pc = "stopChromedriverProxies", !.calls = {},
                     !.logged = {}, !.dsBegun = @ + 1, !.raised = NoErr,
                     !.again = drv[s].tornDown])
     \/ /\ AtRest(s)
        /\ drv[s].clientDeletes < MaxDeletes
        /\ Set(s, [drv[s] EXCEPT !.pc = "stopChromedriverProxies", !.calls = {},
                     !.logged = {}, !.dsBegun = @ + 1, !.caller = "client",
                     !.clientDeletes = @ + 1, !.raised = NoErr,
                     !.again = drv[s].tornDown])
  /\ UNCHANGED <<pushed, opts, dev, forwards, extListen, guard, faults>>

\* lines 756-761
stopChromedriverProxies(s) ==
  /\ drv[s].pc = "stopChromedriverProxies"
  /\ \/ /\ faults' = faults
        /\ IF drv[s].uiautomator2
             THEN Set(s, Called([drv[s] EXCEPT !.pc = "uia2DeleteSession",
                                   !.chromedriver = FALSE], "stopChromedriverProxies"))
             ELSE Set(s, [drv[s] EXCEPT !.pc = "uia2DeleteSession"])
     \/ /\ drv[s].uiautomator2
        /\ Fault
        /\ Set(s, Logged(Called([drv[s] EXCEPT !.pc = "uia2DeleteSession"],
                                "stopChromedriverProxies"), "stopChromedriverProxies"))
  /\ UNCHANGED <<pushed, opts, dev, forwards, extListen, guard>>

\* the device server asked whatever the flag says
asksDeviceServer_Always(r) ==
  r.uiautomator2

\* lines 756 and 762: the device server is asked to end its session when
\* the handle exists and proxying was active
asksDeviceServer(r) ==
  r.uiautomator2 /\ r.jwpProxyActive

\* the bridge taken as attached
bridgeAttached_Always(r) ==
  TRUE

\* line 773
bridgeAttached(r) ==
  r.adb

\* the handle cleared and the flag left as it is (line 771 left out)
uia2DeleteSession_KeepsFlag(s) ==
  /\ drv[s].pc = "uia2DeleteSession"
  /\ LET asks == asksDeviceServer(drv[s])
         next == IF bridgeAttached(drv[s]) THEN "stopRecording" ELSE "baseDeleteSession"
         cleared == [drv[s] EXCEPT !.pc = next, !.uiautomator2 = FALSE]
     IN  \/ /\ faults' = faults
            /\ IF asks
                 THEN /\ Set(s, Called(cleared, "uiautomator2.deleteSession"))
                      /\ SetDev(s, [dev[s] EXCEPT !.serverSession = FALSE,
                                                  !.sessionsEnded = @ + 1])
                 ELSE /\ Set(s, cleared)
                      /\ dev' = dev
         \/ /\ asks
            /\ Fault
            /\ Set(s, Logged(Called(cleared, "uiautomator2.deleteSession"),
                             "uiautomator2.deleteSession"))
            /\ dev' = dev
  /\ UNCHANGED <<pushed, opts, forwards, extListen, guard>>

\* lines 762-773: the device server is asked to end its session, the handle
\* and the flag are cleared
uia2DeleteSession(s) ==
  /\ drv[s].pc = "uia2DeleteSession"
  /\ LET asks == asksDeviceServer(drv[s])
         next == IF bridgeAttached(drv[s]) THEN "stopRecording" ELSE "baseDeleteSession"
         cleared == [drv[s] EXCEPT !.pc = next, !.uiautomator2 = FALSE,
                                   !.jwpProxyActive = FALSE]
     IN  \/ /\ faults' = faults
            /\ IF asks
                 THEN /\ Set(s, Called(cleared, "uiautomator2.deleteSession"))
                      /\ SetDev(s, [dev[s] EXCEPT !.serverSession = FALSE,
                                                  !.sessionsEnded = @ + 1])
                 ELSE /\ Set(s, cleared)
                      /\ dev' = dev
         \/ /\ asks
            /\ Fault
            /\ Set(s, Logged(Called(cleared, "uiautomator2.deleteSession"),
                             "uiautomator2.deleteSession"))
            /\ dev' = dev
  /\ UNCHANGED <<pushed, opts, forwards, extListen, guard>>

\* lines 736-752: the stop tasks that have something to wait for
stopTasksStarted(o) ==
  {"mediaProjection"}
    \cup (IF o.recordingScreen THEN {"screenRecording"} ELSE {})
    \cup (IF o.streamingScreen THEN {"screenStreaming"} ELSE {})

\* lines 774-782: the stop tasks are started; the callback of map returns
\* nothing, so B.all waits for none of them
stopRecording(s) ==
  /\ drv[s].pc = "stopRecording"
  /\ Set(s, [drv[s] EXCEPT !.pc = "endAndroidCoverage",
               !.stopTasks = @ \cup stopTasksStarted(opts[s])])
  /\ UNCHANGED <<pushed, opts, dev, forwards, extListen, guard, faults>>

\* lines 776-780: a started stop task ends, its error swallowed
finishStopTask(s) ==
  /\ \E k \in drv[s].stopTasks :
       Set(s, [drv[s] EXCEPT !.stopTasks = @ \ {k}])
  /\ UNCHANGED <<pushed, opts, dev, forwards, extListen, guard, faults>>

\* lines 784-798
endAndroidCoverage(s) ==
  /\ drv[s].pc = "endAndroidCoverage"
  /\ LET ended == Called(drv[s], "endAndroidCoverage")
     IN  \/ /\ faults' = faults
            /\ IF ~opts[s].androidCoverage
                 THEN Set(s, [drv[s] EXCEPT !.pc = "forceStop"])
                 ELSE IF opts[s].androidCoverageEndIntent
                   THEN Set(s, Called([ended EXCEPT !.pc = "forceStop"], "broadcast"))
                   ELSE Set(s, [ended EXCEPT !.pc = "forceStop"])
         \/ /\ opts[s].androidCoverage
            /\ Fault
            /\ Set(s, Raise(ended, Err("endAndroidCoverage", 0)))
         \/ /\ opts[s].androidCoverage /\ opts[s].androidCoverageEndIntent
            /\ Fault
            /\ Set(s, Raise(Called(ended, "broadcast"), Err("broadcast", 0)))
  /\ UNCHANGED <<pushed, opts, dev, forwards, extListen, guard>>

\* lines 799-804
stopsApp(o) ==
  /\ o.appPackage
  /\ ~o.isChromeSession
  /\ (~o.dontStopAppOnReset /\ ~o.noReset) \/ (o.noReset /\ o.shouldTerminateApp)

\* lines 799-810
forceStop(s) ==
  /\ drv[s].pc = "forceStop"
  /\ \/ /\ faults' = faults
        /\ IF stopsApp(opts[s])
             THEN Set(s, Called([drv[s] EXCEPT !.pc = "uninstallApk"], "forceStop"))
             ELSE Set(s, [drv[s] EXCEPT !.pc = "uninstallApk"])
     \/ /\ stopsApp(opts[s])
        /\ Fault
        /\ Set(s, Logged(Called([drv[s] EXCEPT !.pc = "uninstallApk"], "forceStop"),
                         "forceStop"))
  /\ UNCHANGED <<pushed, opts, dev, forwards, extListen, guard>>

\* line 811
uninstallsApp(o) ==
  o.appPackage /\ o.fullReset /\ ~o.skipUninstall

\* lines 811-821
uninstallApk(s) ==
  /\ drv[s].pc = "uninstallApk"
  /\ \/ /\ faults' = faults
        /\ IF uninstallsApp(opts[s])
             THEN Set(s, Called([drv[s] EXCEPT !.pc = "restoreAnimation"], "uninstallApk"))
             ELSE Set(s, [drv[s] EXCEPT !.pc = "restoreAnimation"])
     \/ /\ uninstallsApp(opts[s])
        /\ Fault
        /\ Set(s, Logged(Called([drv[s] EXCEPT !.pc = "restoreAnimation"], "uninstallApk"),
                         "uninstallApk"))
  /\ UNCHANGED <<pushed, opts, dev, forwards, extListen, guard>>

\* lines 822-826
restoreAnimation(s) ==
  /\ drv[s].pc = "restoreAnimation"
  /\ \/ /\ faults' = faults
        /\ IF drv[s].wasWindowAnimationDisabled
             THEN /\ Set(s, Called([drv[s] EXCEPT !.pc = "stopLogcat"], "setAnimationState"))
                  /\ SetDev(s, [dev[s] EXCEPT !.animationOn = TRUE])
             ELSE /\ Set(s, [drv[s] EXCEPT !.pc = "stopLogcat"])
                  /\ dev' = dev
     \/ /\ drv[s].wasWindowAnimationDisabled
        /\ Fault
        /\ Set(s, Raise(Called(drv[s], "setAnimationState"), Err("setAnimationState(true)", 0)))
        /\ dev' = dev
  /\ UNCHANGED <<pushed, opts, forwards, extListen, guard>>

\* line 827
stopLogcat(s) ==
  /\ drv[s].pc = "stopLogcat"
  /\ \/ /\ faults' = faults
        /\ Set(s, Called([drv[s] EXCEPT !.pc = "releaseSystemPort"], "stopLogcat"))
     \/ /\ Fault
        /\ Set(s, Raise(Called(drv[s], "stopLogcat"), Err("stopLogcat", 0)))
  /\ UNCHANGED <<pushed, opts, dev, forwards, extListen, guard>>

(* ----------------------------- port release --------------------------- *)

\* adb forward --remove tcp:<local>: the forward of the local port goes,
\* whoever asked for it; adb reports an error when it has none (the case
\* the comments of lines 832-833 and 839-840 speak of)
adbHasForward(local) ==
  \E f \in forwards : f[1] = local

adbRemovePortForward(local) ==
  forwards' = {f \in forwards : f[1] # local}

\* lines 399-404, 828-829: nothing to release without a resolved port or a
\* bridge; a caller-supplied port is released directly, a scanned one under
\* the guard
releaseSystemPort(s) ==
  /\ drv[s].pc = "releaseSystemPort"
  /\ IF drv[s].systemPort = 0 \/ ~drv[s].adb
       THEN Set(s, [drv[s] EXCEPT !.pc = "releaseMjpegServerPort"])
       ELSE IF drv[s].hasSystemPortInCaps
         THEN Set(s, [drv[s] EXCEPT !.pc = "removeDirect"])
         ELSE Set(s, [drv[s] EXCEPT !.pc = "releaseGuard"])
  /\ UNCHANGED <<pushed, opts, dev, forwards, extListen, guard, faults>>

\* removePortForward(this.systemPort) with the catch of lines 830-834 left out
removed_Raising(r, e) ==
  LET called == Called(r, "removeSystemPortForward")
  IN  IF r.pc = "removeDirect"
        THEN IF e = NoErr
               THEN [called EXCEPT !.pc = "releaseMjpegServerPort"]
               ELSE Raise(called, e)
        ELSE [called EXCEPT !.pc = "releaseUnguard", !.gerr = e]

\* how removePortForward(this.systemPort) ends, for the step after it:
\* line 405 returns to deleteSession, whose catch (lines 830-834) logs an
\* error; line 408 returns to the guard
removed(r, e) ==
  LET called == Called(r, "removeSystemPortForward")
  IN  IF r.pc = "removeDirect"
        THEN IF e = NoErr
               THEN [called EXCEPT !.pc = "releaseMjpegServerPort"]
               ELSE Logged([called EXCEPT !.pc = "releaseMjpegServerPort"],
                           "releaseSystemPort")
        ELSE [called EXCEPT !.pc = "releaseUnguard", !.gerr = e]

\* lines 405 and 408
removePortForward(s) ==
  /\ drv[s].pc \in {"removeDirect", "removeGuarded"}
  /\ \/ /\ adbHasForward(drv[s].systemPort)
        /\ adbRemovePortForward(drv[s].systemPort)
        /\ faults' = faults
        /\ Set(s, removed(drv[s], NoErr))
     \/ /\ IF adbHasForward(drv[s].systemPort) THEN Fault ELSE faults' = faults
        /\ forwards' = forwards
        /\ Set(s, removed(drv[s], Err("removePortForward", drv[s].systemPort)))
  /\ UNCHANGED <<pushed, opts, dev, extListen, guard>>

\* lines 423-427, 835-841
releaseMjpegServerPort(s) ==
  /\ drv[s].pc = "releaseMjpegServerPort"
  /\ LET port == opts[s].mjpegServerPort
         called == Called([drv[s] EXCEPT !.pc = "restoreHiddenApiPolicy"],
                          "removeMjpegPortForward")
     IN  \/ /\ port = 0
            /\ faults' = faults
            /\ forwards' = forwards
            /\ Set(s, [drv[s] EXCEPT !.pc = "restoreHiddenApiPolicy"])
         \/ /\ port # 0
            /\ adbHasForward(port)
            /\ adbRemovePortForward(port)
            /\ faults' = faults
            /\ Set(s, called)
         \/ /\ port # 0
            /\ IF adbHasForward(port) THEN Fault ELSE faults' = faults
            /\ forwards' = forwards
            /\ Set(s, Logged(called, "releaseMjpegServerPort"))
  /\ UNCHANGED <<pushed, opts, dev, extListen, guard>>

(* ----------------------- deleteSession, continued --------------------- *)

\* lines 843-847
restoreHiddenApiPolicy(s) ==
  /\ drv[s].pc = "restoreHiddenApiPolicy"
  /\ LET applies == dev[s].apiLevel >= HIDDEN_API_LEVEL
     IN  \/ /\ faults' = faults
            /\ IF applies
                 THEN /\ Set(s, Called([drv[s] EXCEPT !.pc = "killEmulator"],
                                       "setDefaultHiddenApiPolicy"))
                      /\ SetDev(s, [dev[s] EXCEPT !.hiddenApiRelaxed = FALSE])
                 ELSE /\ Set(s, [drv[s] EXCEPT !.pc = "killEmulator"])
                      /\ dev' = dev
         \/ /\ applies
            /\ Fault
            /\ Set(s, Raise(Called(drv[s], "setDefaultHiddenApiPolicy"),
                            Err("setDefaultHiddenApiPolicy", 0)))
            /\ dev' = dev
  /\ UNCHANGED <<pushed, opts, forwards, extListen, guard>>

\* lines 849-858
killEmulator(s) ==
  /\ drv[s].pc = "killEmulator"
  /\ \/ /\ faults' = faults
        /\ IF opts[s].reboot
             THEN Set(s, Called([drv[s] EXCEPT !.pc = "baseDeleteSession"], "killEmulator"))
             ELSE Set(s, [drv[s] EXCEPT !.pc = "baseDeleteSession"])
     \/ /\ opts[s].reboot
        /\ Fault
        /\ Set(s, Logged(Called([drv[s] EXCEPT !.pc = "baseDeleteSession"], "killEmulator"),
                         "killEmulator"))
  /\ UNCHANGED <<pushed, opts, dev, forwards, extListen, guard>>

\* lines 860-865: the MJPEG stream is stopped and BaseDriver.deleteSession
\* closes the session
baseDeleteSession(s) ==
  /\ drv[s].pc = "baseDeleteSession"
  /\ \/ /\ faults' = faults
        /\ Set(s, Return([drv[s] EXCEPT !.sessionId = FALSE]))
     \/ /\ Fault
        /\ Set(s, Raise(drv[s], Err("BaseDriver.deleteSession", 0)))
  /\ UNCHANGED <<pushed, opts, dev, forwards, extListen, guard>>

(* ------------------------------- routing ------------------------------ *)

\* the client of a running session, one that sends requests, switches
\* between the native context and a webview context: setContext sets
\* this.chromedriver, or unsets it
switchContext(s) ==
  /\ drv[s].pc = "running"
  /\ opts[s].inbound # {}
  /\ Set(s, [drv[s] EXCEPT !.chromedriver = ~@])
  /\ UNCHANGED <<pushed, opts, dev, forwards, extListen, guard, faults>>

\* proxyActive gated by the proxy-active flag
proxyActive_Flag(r) ==
  r.jwpProxyActive

\* lines 880-884
proxyActive(r) ==
  TRUE

\* the table the constructor assigned (line 211), whatever the context
avoidTable_Native(r) ==
  "NO_PROXY"

\* lines 892-900: the table of the current context
avoidTable(r) ==
  IF r.chromedriver THEN "CHROME_NO_PROXY" ELSE "NO_PROXY"

\* lines 68-160: the rules a static table was written with
initialTable(table) ==
  IF table = "CHROME_NO_PROXY" THEN CHROME_NO_PROXY ELSE NO_PROXY

\* the static table as it is now
staticTable(table) ==
  initialTable(table) \o pushed[table]

\* lines 892-909: the list itself, by its table and the rule of line 904,
\* which goes into a new array after a copy of the table
proxyAvoidList(table, extended) ==
  LET list == staticTable(table)
  IN  IF extended THEN Append(list, SCREENSHOT_RULE) ELSE list

\* the rule of line 904 pushed onto the table itself
pushedAfter_InPlace(table, extended) ==
  IF extended
    THEN [pushed EXCEPT ![table] = Append(@, SCREENSHOT_RULE)]
    ELSE pushed

\* lines 895-906: what a call of getProxyAvoidList leaves in the static
\* tables: this.jwpProxyAvoid is assigned the table, or a new array
\* spread from it; nothing is written into the table
pushedAfter(table, extended) ==
  pushed

getProxyAvoidList(r, o) ==
  proxyAvoidList(avoidTable(r), o.nativeWebScreenshot)

\* section 4.3: a rule applies to a request of its method whose path its
\* pattern matches
ruleApplies(rule, req) ==
  rule.method = req.method /\ Matches(rule, req.path)

\* section 4.3: the request is avoided when a rule of the list applies
proxyRouteIsAvoided(list, req) ==
  \E i \in 1..Len(list) : ruleApplies(list[i], req)

\* the decision for one request: proxied when the driver says its proxy is
\* active and no rule of the avoid list applies, handled locally otherwise
routeDecision(r, o, req) ==
  IF proxyActive(r) /\ ~proxyRouteIsAvoided(getProxyAvoidList(r, o), req)
    THEN "proxy" ELSE "local"

\* a request of the client reaches the driver while its session exists
dispatch(s) ==
  /\ drv[s].sessionId
  /\ drv[s].pc # "crashed"
  /\ \E req \in opts[s].inbound :
       Set(s, [drv[s] EXCEPT !.routed =
                 [ method |-> req.method, path |-> req.path,
                   jwpProxyAvoid |-> avoidTable(drv[s]),
                   extended |-> opts[s].nativeWebScreenshot,
                   rules |-> Len(getProxyAvoidList(drv[s], opts[s])),
                   decision |-> routeDecision(drv[s], opts[s], req) ]])
  /\ pushed' = pushedAfter(avoidTable(drv[s]), opts[s].nativeWebScreenshot)
  /\ UNCHANGED <<opts, dev, forwards, extListen, guard, faults>>

(* --------------------------- specifications --------------------------- *)

Next ==
  \E s \in Sessions :
    \/ createSession(s)
    \/ configureApp(s)
    \/ createADB(s)
    \/ getApiLevel(s)
    \/ setHiddenApiPolicy(s)
    \/ initDevice(s)
    \/ allocateSystemPort(s)
    \/ acquireGuard(s)
    \/ findAPortNotInUse(s)
    \/ checkPortStatus(s)
    \/ forwardPort(s)
    \/ releaseGuard(s)
    \/ crash(s)
    \/ allocateMjpegServerPort(s)
    \/ initUiAutomator2Server(s)
    \/ disableAnimation(s)
    \/ initAUT(s)
    \/ startSession(s)
    \/ getDeviceInfoFromUia2(s)
    \/ unlock(s)
    \/ startApp(s)
    \/ setOrientation(s)
    \/ autoWebview(s)
    \/ activateProxy(s)
    \/ getDeviceDetails(s)
    \/ startMjpegStream(s)
    \/ deleteSession(s)
    \/ stopChromedriverProxies(s)
    \/ uia2DeleteSession(s)
    \/ stopRecording(s)
    \/ finishStopTask(s)
    \/ endAndroidCoverage(s)
    \/ forceStop(s)
    \/ uninstallApk(s)
    \/ restoreAnimation(s)
    \/ stopLogcat(s)
    \/ releaseSystemPort(s)
    \/ removePortForward(s)
    \/ releaseMjpegServerPort(s)
    \/ restoreHiddenApiPolicy(s)
    \/ killEmulator(s)
    \/ baseDeleteSession(s)
    \/ switchContext(s)
    \/ dispatch(s)

\* one session, any capability bundle
Spec ==
  Init /\ [][Next]_vars

\* two concurrent sessions on one host
SpecPorts ==
  InitPorts /\ [][Next]_vars

\* two scanning sessions; a call of the guard that is pending ends: the
\* lock file is taken, or the timeout of the guard passes
SpecGuard ==
  /\ InitGuard
  /\ [][Next]_vars
  /\ \A s \in Sessions : WF_vars(acquireGuard(s))

\* one session and the requests of its client
SpecRoutes ==
  InitRoutes /\ [][Next]_vars

(* ------------------------------ properties ---------------------------- *)

\* the session was started without a caller-supplied system port
Scans(s) ==
  opts[s] # NoOpts /\ opts[s].systemPort = 0

\* the session has scanned a port and has not yet left forwardPort
BetweenScanAndForward(s) ==
  Scans(s) /\ drv[s].pc \in {"checkPortStatus", "forwardPort"}

\* C1: two sessions that both scan for their system port never hold a
\* forward on the same local port, and from a session's scan to its forward
\* the session holds the guard, so that no other scanning session is between
\* its own scan and forward or holds the scanned port.
C1_ScannedPortsDistinct ==
  \A s, t \in Sessions :
    (s # t /\ Scans(s) /\ Scans(t)) =>
      /\ Leases(s) \cap Leases(t) = {}
      /\ BetweenScanAndForward(s) =>
           /\ guard = s
           /\ ~BetweenScanAndForward(t)
           /\ drv[s].systemPort \notin Leases(t)

C1_Witness ==
  /\ Scans("s1") /\ Scans("s2")
  /\ Leases("s1") = {DEVICE_PORT_RANGE_START}
  /\ Leases("s2") = {DEVICE_PORT_RANGE_START + 1}

\* C2: whatever the provenance of their ports, no two sessions hold a
\* forward on the same local port.
C2_OneLeasePerPort ==
  \A s, t \in Sessions :
    s # t => Leases(s) \cap Leases(t) = {}

\* the provisioning side effect was performed
InProv(s, what) ==
  \E i \in 1..Len(drv[s].prov) : drv[s].prov[i] = what

\* createSession has been rejected and no client has called the driver since
CreateRejected(s) ==
  drv[s].pc = "createFailed" /\ drv[s].clientDeletes = 0

BaseError ==
  Err("BaseDriver.deleteSession", 0)

\* C3: after a createSession that failed with the system port forwarded,
\* the forward is gone when createSession has finished its teardown.
C3_ForwardRemovedAfterFailedCreate ==
  \A s \in Sessions :
    (CreateRejected(s) /\ InProv(s, "forwardSystemPort")) =>
      drv[s].systemPort \notin Leases(s)

\* C4: deleteSession is rejected by nothing but its base step, and a
\* deleteSession that found the bridge attached has run its later
\* sub-steps (stopLogcat, which no option skips) whatever failed before.
C4_TeardownFailuresAreLogged ==
  \A s \in Sessions :
    /\ drv[s].raised \in {NoErr, BaseError}
    /\ (AtRest(s) /\ drv[s].dsBegun > 0 /\ drv[s].adb) => "stopLogcat" \in drv[s].calls

\* C5: a rejected createSession has run deleteSession once, to its end, and
\* is rejected with the error of the provisioning step that failed.
C5_CreateRejectedWithProvisioningError ==
  \A s \in Sessions :
    CreateRejected(s) =>
      /\ drv[s].result = drv[s].err
      /\ drv[s].dsBegun = 1
      /\ drv[s].dsEnded = 1

DeviceBridgeCalls ==
  { "removeSystemPortForward", "removeMjpegPortForward", "stopLogcat",
    "setAnimationState", "setDefaultHiddenApiPolicy", "forceStop",
    "uninstallApk", "killEmulator" }

\* C6: a deleteSession that follows a complete one calls nothing on the
\* device bridge and is not rejected.
C6_SecondDeleteDoesNothing ==
  \A s \in Sessions :
    drv[s].again =>
      /\ drv[s].calls \cap DeviceBridgeCalls = {}
      /\ drv[s].raised = NoErr

\* C7: the releaseSystemPort of a deleteSession that follows a complete one
\* (the second release of an allocated port) ends without an error.
C7_SecondReleaseSucceeds ==
  \A s \in Sessions :
    (drv[s].again /\ InProv(s, "forwardSystemPort")) =>
      "releaseSystemPort" \notin drv[s].logged

\* the caller supplied a system port that another process listens on
SuppliedPortBusy(s) ==
  opts[s] # NoOpts /\ opts[s].systemPort # 0 /\ opts[s].systemPort \in extListen

\* allocateSystemPort has been called and has left its check of the port
AllocationChecked(s) ==
  InProv(s, "initDevice") /\ drv[s].pc \notin {"allocateSystemPort", "checkPortStatus"}

\* C8: with a caller-supplied system port that something listens on,
\* allocateSystemPort fails with the port-busy error naming the port,
\* createSession is rejected, and the session never forwards that port.
C8_SuppliedPortBusy ==
  \A s \in Sessions :
    SuppliedPortBusy(s) =>
      /\ AllocationChecked(s) => drv[s].err = Err("PortBusy", opts[s].systemPort)
      /\ ~InProv(s, "forwardSystemPort")
      /\ opts[s].systemPort \notin Leases(s)
      /\ drv[s].pc # "running"
      /\ drv[s].pc = "createFailed" => drv[s].result # NoErr

C8_Witness ==
  /\ SuppliedPortBusy("s1")
  /\ drv["s1"].pc = "createFailed"
  /\ drv["s1"].result = Err("PortBusy", OtherPort)

\* the device reports an API level below the supported minimum
TooOld(s) ==
  opts[s] # NoOpts /\ dev[s].apiLevel < MIN_API_LEVEL

\* C9: on a device below API level 21 createSession is rejected, no port is
\* forwarded, the hidden-API policy is not relaxed, and neither the server
\* installation nor the preparation of the app is attempted.
C9_UnsupportedDevice ==
  \A s \in Sessions :
    TooOld(s) =>
      /\ InProv(s, "getApiLevel") => drv[s].err = Err("UnsupportedDevice", 0)
      /\ drv[s].pc # "running"
      /\ drv[s].pc = "createFailed" => drv[s].result # NoErr
      /\ Leases(s) = {}
      /\ ~dev[s].hiddenApiRelaxed
      /\ ~dev[s].serverInstalled
      /\ \A what \in {"setHiddenApiPolicy", "forwardSystemPort", "forwardMjpegPort",
                      "installServerApk", "initAUT"} : ~InProv(s, what)

C9_Witness ==
  /\ TooOld("s1")
  /\ drv["s1"].pc = "createFailed"
  /\ drv["s1"].result = Err("UnsupportedDevice", 0)
  /\ "stopLogcat" \in drv["s1"].calls

\* a full reset was asked for and no app was given
FullResetNoApp(s) ==
  opts[s] # NoOpts /\ opts[s].fullReset /\ ~opts[s].app

WebviewNeverComes(s) ==
  /\ opts[s] # NoOpts
  /\ opts[s].autoWebview
  /\ opts[s].autoWebviewTimeout \in {0, 2000}
  /\ opts[s].webviewAt = 0

\* C11: with the auto-webview policy, a timeout of 2000 ms and a webview
\* context that never exists, setContext is attempted 4 times and no more,
\* createSession is rejected after the fourth, and the proxy-active flag is
\* never set.
C11_FourAttemptsThenFailure ==
  \A s \in Sessions :
    WebviewNeverComes(s) =>
      /\ drv[s].tries <= 4
      /\ drv[s].err = Err("setContext", 0) <=> drv[s].tries = 4
      /\ drv[s].pc # "running"
      /\ drv[s].pc = "createFailed" => drv[s].result # NoErr
      /\ ~drv[s].jwpProxyActive
      /\ ~InProv(s, "jwpProxyActive")

C11_Witness ==
  /\ WebviewNeverComes("s1")
  /\ opts["s1"].autoWebviewTimeout = 0
  /\ drv["s1"].pc = "createFailed"
  /\ drv["s1"].result = Err("setContext", 0)
  /\ drv["s1"].tries = 4

\* a request has been dispatched to the driver of session s
Routed(s) ==
  drv[s].routed # NoRoute

RoutedRequest(s) ==
  [method |-> drv[s].routed.method, path |-> drv[s].routed.path]

RoutedList(s) ==
  proxyAvoidList(drv[s].routed.jwpProxyAvoid, drv[s].routed.extended)

C13_TableFollowsContext ==
  [][\A s \in Sessions :
       /\ drv'[s].routed # drv[s].routed =>
            drv'[s].routed.jwpProxyAvoid =
              IF drv[s].chromedriver THEN "CHROME_NO_PROXY" ELSE "NO_PROXY"
       /\ drv'[s].chromedriver # drv[s].chromedriver =>
            drv'[s].routed = drv[s].routed]_vars

\* a request proxied under the native table, which the embedded-web table
\* keeps local, and the session in a webview context since
C13_Witness ==
  /\ drv["s1"].pc = "running"
  /\ drv["s1"].chromedriver
  /\ ~opts["s1"].isChromeSession /\ ~opts["s1"].autoWebview
  /\ drv["s1"].routed.jwpProxyAvoid = "NO_PROXY"
  /\ drv["s1"].routed.method = "GET"
  /\ drv["s1"].routed.path = <<"element", "e1", "rect">>
  /\ drv["s1"].routed.decision = "proxy"

\* where deleteSession is while its releaseSystemPort runs
InSystemPortRelease(s) ==
  drv[s].pc \in {"releaseSystemPort", "removeDirect", "releaseGuard",
                 "removeGuarded", "releaseUnguard"}

PortReleaseErrors ==
  {"removePortForward", "releaseMjpegServerPort", "releaseSystemPort", "GuardTimeout"}

\* C14: in a deleteSession with the bridge attached the MJPEG port is not
\* released while the release of the system port is under way, and not
\* without the system port having been tried; a failed release of the
\* system port is followed by the attempt on the MJPEG port; and no
\* failure of either release is raised by deleteSession.
C14_PortReleasesIndependent ==
  \A s \in Sessions :
    /\ InSystemPortRelease(s) => "removeMjpegPortForward" \notin drv[s].calls
    /\ ("removeMjpegPortForward" \in drv[s].calls /\ drv[s].systemPort # 0) =>
         \/ "removeSystemPortForward" \in drv[s].calls
         \/ "releaseSystemPort" \in drv[s].logged
    /\ ( /\ "releaseSystemPort" \in drv[s].logged
         /\ opts[s].mjpegServerPort # 0
         /\ drv[s].pc # "releaseMjpegServerPort" ) =>
         "removeMjpegPortForward" \in drv[s].calls
    /\ drv[s].raised.kind \notin PortReleaseErrors

C14_Witness ==
  /\ drv["s1"].pc = "createFailed"
  /\ InProv("s1", "createADB")
  /\ {"releaseSystemPort", "releaseMjpegServerPort"} \subseteq drv["s1"].logged
  /\ {"removeSystemPortForward", "removeMjpegPortForward"} \subseteq drv["s1"].calls
  /\ drv["s1"].raised = NoErr
  /\ drv["s1"].dsEnded = 1

\* C15: the proxy-active flag is set by the last provisioning step alone,
\* no step before it having failed; a request is proxied only while the
\* flag is set; and while it is set, every request that no rule of the
\* active list matches is proxied.
C15_ProxiedOnlyWhileFlagSet ==
  [][\A s \in Sessions :
       /\ (drv'[s].jwpProxyActive /\ ~drv[s].jwpProxyActive) =>
            (drv[s].pc = "activateProxy" /\ drv[s].err = NoErr)
       /\ (drv'[s].routed # drv[s].routed /\ drv'[s].routed.decision = "proxy") =>
            drv[s].jwpProxyActive
       /\ ( /\ drv'[s].routed # drv[s].routed
            /\ drv[s].jwpProxyActive
            /\ ~proxyRouteIsAvoided(getProxyAvoidList(drv[s], opts[s]),
                                     [method |-> drv'[s].routed.method,
                                      path |-> drv'[s].routed.path]) ) =>
            drv'[s].routed.decision = "proxy"]_vars

ServerTeardownSteps ==
  {"stopChromedriverProxies", "uiautomator2.deleteSession"}

\* C16: in deleteSession the device server is asked to end its session
\* only when the handle exists and the flag is set; the chromedriver
\* proxies are stopped whenever the handle exists; a failure of either is
\* logged and deleteSession goes on, never rejected with it; and once past
\* these steps the handle is cleared and the flag is false.
C16_ServerSessionEndedBestEffort ==
  [][\A s \in Sessions :
       /\ ( /\ "uiautomator2.deleteSession" \in drv'[s].calls
            /\ "uiautomator2.deleteSession" \notin drv[s].calls ) =>
            (drv[s].uiautomator2 /\ drv[s].jwpProxyActive)
       /\ ( /\ drv[s].pc = "stopChromedriverProxies"
            /\ drv'[s].pc # drv[s].pc
            /\ drv[s].uiautomator2 ) =>
            "stopChromedriverProxies" \in drv'[s].calls
       /\ (drv'[s].logged \ drv[s].logged) \cap ServerTeardownSteps # {} =>
            drv'[s].pc \notin {"createFailed", "deleteFailed"}
       /\ drv'[s].raised.kind \notin ServerTeardownSteps
       /\ (drv[s].pc = "uia2DeleteSession" /\ drv'[s].pc # drv[s].pc) =>
            (~drv'[s].uiautomator2 /\ ~drv'[s].jwpProxyActive)
       /\ drv'[s].pc \in {"createFailed", "deleteFailed", "deleted"} =>
            (~drv'[s].uiautomator2 /\ ~drv'[s].jwpProxyActive)]_vars

\* a session that ran is deleted; the device server failed to end its
\* session, which was logged
C16_Witness ==
  /\ drv["s1"].pc = "deleted"
  /\ InProv("s1", "jwpProxyActive")
  /\ "uiautomator2.deleteSession" \in drv["s1"].logged
  /\ "stopChromedriverProxies" \in drv["s1"].calls
  /\ ~drv["s1"].uiautomator2
  /\ ~drv["s1"].jwpProxyActive
  /\ drv["s1"].raised = NoErr

\* the session waits for the allocation guard
WaitsForGuard(s) ==
  drv[s].pc \in {"allocGuard", "releaseGuard"}

\* the session is inside a guarded section, or its call of the guard has
\* failed: with the timeout error for allocateSystemPort, logged by
\* deleteSession for releaseSystemPort
EnteredOrTimedOut(s) ==
  \/ guard = s /\ drv[s].pc \in {"findAPortNotInUse", "removeGuarded"}
  \/ drv[s].err = Err("GuardTimeout", 0)
  \/ "releaseSystemPort" \in drv[s].logged

\* C17: a session that waits for the allocation guard eventually enters
\* the guarded section or fails with the timeout error of the guard, also
\* when the holder of the guard was killed and never released it.
C17_GuardWaitEnds ==
  \A s \in Sessions : WaitsForGuard(s) ~> EnteredOrTimedOut(s)

\* the first session was killed holding the guard, and the second has
\* entered the guarded section since
C17_Witness ==
  /\ drv["s1"].pc = "crashed"
  /\ guard = "s2"
  /\ drv["s2"].pc = "findAPortNotInUse"

RangeExhausted ==
  Err("PortRangeExhausted", 0)

\* allocateSystemPort has been called and has ended, its process alive
AllocationEnded(s) ==
  /\ InProv(s, "initDevice")
  /\ drv[s].pc \notin {"allocateSystemPort", "allocGuard", "findAPortNotInUse",
                        "checkPortStatus", "forwardPort", "allocUnguard", "crashed"}

\* C18: without a caller-supplied system port, the port the scan resolves
\* lies in 8200..8299 and nothing listens on it at the scan, and so does
\* the port of every forward the session makes; when something listens on
\* every port of the range, allocateSystemPort fails with the
\* range-exhausted error, the session has no resolved port and no forward.
C18_ScannedPortInRange ==
  [][\A s \in Sessions :
       Scans(s) =>
         /\ (drv[s].systemPort = 0 /\ drv'[s].systemPort # 0) =>
              /\ drv'[s].systemPort \in 8200..8299
              /\ ~Listening(drv'[s].systemPort)
         /\ drv'[s].systemPort # 0 => drv'[s].systemPort \in 8200..8299
         /\ Leases(s)' \subseteq {drv'[s].systemPort}
         /\ (AllocationEnded(s)' /\ \A p \in 8200..8299 : p \in extListen) =>
              drv'[s].err = RangeExhausted
         /\ RangeExhausted \in {drv'[s].err, drv'[s].gerr} =>
              /\ drv'[s].systemPort = 0
              /\ Leases(s)' = {}
              /\ ~InProv(s, "forwardSystemPort")']_vars

\* the first port of the range is taken by another process, and the
\* session runs on the next
C18_Witness ==
  /\ Scans("s1")
  /\ extListen = {8200}
  /\ drv["s1"].pc = "running"
  /\ drv["s1"].systemPort = 8201
  /\ Leases("s1") = {8201}

\* the order of the provisioning side effects, as claimed
ProvOrder ==
  << "createADB", "getApiLevel", "setHiddenApiPolicy", "initDevice",
     "forwardSystemPort", "forwardMjpegPort", "installServerApk",
     "setAnimationState", "initAUT", "startSession", "getDeviceInfoFromUia2",
     "unlock", "startChromeSession", "ensureAppStarts", "setOrientation",
     "setContext", "jwpProxyActive" >>

Rank ==
  [what \in {ProvOrder[i] : i \in 1..Len(ProvOrder)} |->
     CHOOSE i \in 1..Len(ProvOrder) : ProvOrder[i] = what]

\* the side effects no option leaves out
AlwaysProvisioned ==
  { "createADB", "getApiLevel", "initDevice", "forwardSystemPort", "initAUT",
    "startSession", "getDeviceInfoFromUia2" }

\* C19: the provisioning side effects of a run happen in the one order of
\* ProvOrder, none twice; a side effect happens only after every earlier
\* one that no option leaves out, and none happens once a step has failed;
\* so the device server session is started only after the system port was
\* forwarded, and the proxy-active flag comes last.
C19_ProvisioningInOrder ==
  [][\A s \in Sessions :
       LET p == drv'[s].prov
       IN  /\ \A i \in 1..Len(p) : p[i] \in DOMAIN Rank
           /\ \A i \in 1..(Len(p) - 1) : Rank[p[i]] < Rank[p[i + 1]]
           /\ \A i \in 1..Len(p) : \A w \in AlwaysProvisioned :
                Rank[w] < Rank[p[i]] => \E j \in 1..(i - 1) : p[j] = w
           /\ drv[s].err # NoErr => p = drv[s].prov
           /\ Len(p) >= Len(drv[s].prov)
           /\ dev'[s].serverSession => InProv(s, "forwardSystemPort")'
           /\ drv'[s].jwpProxyActive => p[Len(p)] = "jwpProxyActive"]_vars

\* a chrome session with an orientation has been provisioned to its end
C19_Witness ==
  /\ drv["s1"].pc = "running"
  /\ drv["s1"].prov =
       << "createADB", "getApiLevel", "initDevice", "forwardSystemPort",
          "installServerApk", "initAUT", "startSession", "getDeviceInfoFromUia2",
          "unlock", "startChromeSession", "setOrientation", "jwpProxyActive" >>

\* the steps of deleteSession that touch neither the bridge nor the device
\* server, and the places it ends at
HostSideSteps ==
  { "stopChromedriverProxies", "uia2DeleteSession", "baseDeleteSession",
    "createFailed", "deleted", "deleteFailed" }

\* C20: a deleteSession of a driver that has no adb instance and no device
\* server handle makes no bridge call and no device server request, starts
\* no stop task, logs no failed sub-step, changes neither the device nor
\* the forwards of the session nor the allocation guard, and goes through
\* the host-side steps only.
C20_NoBridgeNoDeviceWork ==
  [][\A s \in Sessions :
       ( /\ drv'[s].dsBegun > 0
         /\ ~drv'[s].adb
         /\ ~drv'[s].uiautomator2 ) =>
           /\ drv'[s].calls = {}
           /\ drv'[s].stopTasks = {}
           /\ drv'[s].logged = {}
           /\ drv'[s].pc \in HostSideSteps
           /\ dev'[s] = dev[s]
           /\ {f \in forwards' : f[2] = s} = {f \in forwards : f[2] = s}
           /\ (guard = s) = (guard' = s)]_vars

\* createADB failed, and the deleteSession of the catch block returned
C20_Witness ==
  /\ drv["s1"].pc = "createFailed"
  /\ drv["s1"].result = Err("createADB", 0)
  /\ ~drv["s1"].adb
  /\ ~InProv("s1", "createADB")
  /\ drv["s1"].dsBegun = 1
  /\ drv["s1"].dsEnded = 1

\* a deleteSession of the session has ended, by returning or by rejecting
TeardownEnded(s) ==
  /\ drv[s].dsBegun > 0
  /\ drv[s].pc \in {"createFailed", "deleted", "deleteFailed"}

\* C21: once a teardown of the session has ended, after an explicit
\* session end or after a provisioning failure, the hidden-API policy that
\* provisioning relaxed is back at the device default; and below API level
\* 28 the policy is never relaxed and setDefaultHiddenApiPolicy never called.
C21_PolicyRestoredByTeardownEnd ==
  \A s \in Sessions :
    /\ TeardownEnded(s) => ~dev[s].hiddenApiRelaxed
    /\ dev[s].apiLevel < HIDDEN_API_LEVEL =>
         /\ ~dev[s].hiddenApiRelaxed
         /\ ~InProv(s, "setHiddenApiPolicy")
         /\ "setDefaultHiddenApiPolicy" \notin drv[s].calls

\* C22: the static tables keep the rules they were written with, whatever
\* calls of getProxyAvoidList and context switches happen; the list a call
\* returns is the static table of the context, followed by exactly one GET
\* screenshot rule when nativeWebScreenshot is set and by nothing
\* otherwise; and a call for the same table returns a list as long as the
\* call before it.
C22_StaticTablesUntouched ==
  [][/\ \A t \in TableNames : staticTable(t)' = initialTable(t)
     /\ \A s \in Sessions :
          LET r == drv'[s].routed
              list == RoutedList(s)'
          IN  /\ Routed(s)' =>
                   /\ r.jwpProxyAvoid \in TableNames
                   /\ r.extended = opts[s].nativeWebScreenshot
                   /\ r.rules = Len(list)
                   /\ r.rules = Len(initialTable(r.jwpProxyAvoid))
                                  + (IF opts[s].nativeWebScreenshot THEN 1 ELSE 0)
                   /\ SubSeq(list, 1, Len(initialTable(r.jwpProxyAvoid)))
                        = initialTable(r.jwpProxyAvoid)
                   /\ opts[s].nativeWebScreenshot => list[r.rules] = SCREENSHOT_RULE
              /\ (Routed(s) /\ r.jwpProxyAvoid = drv[s].routed.jwpProxyAvoid) =>
                   r.rules = drv[s].routed.rules]_vars

\* with nativeWebScreenshot set, a request was dispatched in the native
\* context and, after a context switch, a screenshot request in a webview
C22_Witness ==
  /\ opts["s1"].nativeWebScreenshot
  /\ drv["s1"].chromedriver
  /\ drv["s1"].routed.jwpProxyAvoid = "CHROME_NO_PROXY"
  /\ drv["s1"].routed.path = <<"screenshot">>
  /\ drv["s1"].routed.rules = Len(CHROME_NO_PROXY) + 1
  /\ drv["s1"].routed.decision = "local"

\* the system port of the session was given by the caller
PortSupplied(s) ==
  opts[s] # NoOpts /\ opts[s].systemPort # 0

\* releaseSystemPort asks for the guard, holds it, or gives it back
ReleasesUnderGuard(s) ==
  drv[s].pc \in {"releaseGuard", "removeGuarded", "releaseUnguard"}

\* C23: releaseSystemPort removes the forward under the allocation guard
\* exactly when the port was found by the scan and directly, without the
\* guard, exactly when the caller supplied it; the provenance it goes by is
\* the one allocateSystemPort recorded; and nothing is removed without a
\* resolved port or without the bridge.
C23_ReleaseFollowsProvenance ==
  \A s \in Sessions :
    /\ ReleasesUnderGuard(s) => (~PortSupplied(s) /\ ~drv[s].hasSystemPortInCaps)
    /\ drv[s].pc = "removeGuarded" => guard = s
    /\ drv[s].pc = "removeDirect" =>
         (PortSupplied(s) /\ drv[s].hasSystemPortInCaps /\ guard # s)
    /\ (ReleasesUnderGuard(s) \/ drv[s].pc = "removeDirect") =>
         (drv[s].systemPort # 0 /\ drv[s].adb)
    /\ "removeSystemPortForward" \in drv[s].calls =>
         (drv[s].systemPort # 0 /\ drv[s].adb)

\* the session issues the bridge call in this step
Issues(s, call) ==
  call \in drv'[s].calls /\ call \notin drv[s].calls

\* C24: deleteSession asks the bridge to remove the forward of the system
\* port, or of the MJPEG port, only when this session created that forward,
\* and a step of the session removes no forward of another session.
C24_RemovesOwnForwardsOnly ==
  [][\A s \in Sessions :
       /\ Issues(s, "removeSystemPortForward") => InProv(s, "forwardSystemPort")
       /\ Issues(s, "removeMjpegPortForward") => InProv(s, "forwardMjpegPort")
       /\ drv'[s] # drv[s] => \A f \in forwards \ forwards' : f[2] = s]_vars

\* C25: when the first teardown of a session whose device server session
\* was started has ended, the device server has been asked to end that
\* session, whether or not provisioning got as far as the proxy-active flag.
C25_StartedServerSessionIsEnded ==
  \A s \in Sessions :
    ( /\ TeardownEnded(s)
      /\ drv[s].dsBegun = 1
      /\ InProv(s, "startSession") ) =>
        "uiautomator2.deleteSession" \in drv[s].calls

\* deleteSession is past the stop tasks: at the stop of the application or
\* a later step, or back at its caller
PastStopTasks(s) ==
  drv[s].pc \in
    { "forceStop", "uninstallApk", "restoreAnimation", "stopLogcat",
      "releaseSystemPort", "releaseGuard", "removeGuarded", "releaseUnguard",
      "removeDirect", "releaseMjpegServerPort", "restoreHiddenApiPolicy",
      "killEmulator", "baseDeleteSession", "createFailed", "deleted",
      "deleteFailed" }

\* C26: no stop task of deleteSession is still running once deleteSession
\* has gone on to stop the application, to stop logcat, to release the
\* ports, or has returned; and no failure of a stop task is raised or logged.
C26_StopTasksFinishedFirst ==
  \A s \in Sessions :
    /\ PastStopTasks(s) => drv[s].stopTasks = {}
    /\ drv[s].raised.kind \notin {"screenRecording", "mediaProjection", "screenStreaming"}
    /\ drv[s].logged \cap {"screenRecording", "mediaProjection", "screenStreaming"} = {}

\* C27: in every state between two steps of a session, the proxy-active
\* flag is set only while the device server handle exists and after the
\* device server session was started; without the handle the flag is false.
C27_FlagImpliesHandle ==
  \A s \in Sessions :
    /\ drv[s].jwpProxyActive => (drv[s].uiautomator2 /\ InProv(s, "startSession"))
    /\ ~drv[s].uiautomator2 => ~drv[s].jwpProxyActive

\* a session that ran is being deleted a second time: the flag was set,
\* and the handle and the flag were cleared by the first teardown
C27_Witness ==
  /\ InProv("s1", "jwpProxyActive")
  /\ drv["s1"].dsBegun = 2
  /\ drv["s1"].pc = "uia2DeleteSession"
  /\ ~drv["s1"].uiautomator2
  /\ ~drv["s1"].jwpProxyActive

\* C28: a forward to the MJPEG server of the device is only ever made onto
\* a local port that, when it is made, nothing listens on and no session
\* forwards, the system port of the same session included.
C28_MjpegForwardOntoFreePort ==
  [][\A f \in forwards' \ forwards :
       f[3] = MJPEG_SERVER_DEVICE_PORT => ~Listening(f[1])]_vars

====
